---------------------------- MODULE Spec2Model ----------------------------
(***************************************************************************)
(* dependabot-alert-bridge: the webhook request pipeline of index.ts.      *)
(*                                                                         *)
(* One HTTP request is handled by an async function whose synchronous      *)
(* segments run atomically on the event loop; it yields at the body read   *)
(* (for await), at webhooks.verify, at appAuth and at githubRequest.  Each *)
(* action below is one such segment.                                       *)
(***************************************************************************)
EXTENDS Integers, Sequences, FiniteSets, TLC

VARIABLES req, fx

vars == <<req, fx>>

(***************************************************************************)
(* Bounds of the model.                                                    *)
(***************************************************************************)
MaxRequests == 2        \* request slots of the server
MaxChunks == 2          \* 'data' events delivered for one request body
MaxSigLen == 2          \* bytes of a body in the signature check

(***************************************************************************)
(* JavaScript values.  undefined / null / a value of the wrong type is     *)
(* None, a present value v is Some(v).  A string that the code takes apart *)
(* (trim, localeCompare, toLowerCase) is a sequence of one-character       *)
(* strings; a string that is only compared is a TLA+ string.               *)
(***************************************************************************)
None == <<>>
Some(v) == <<v>>
Val(o) == o[1]
\* !x for a header (a string), for a name or an ecosystem (a string held as
\* characters) and for a number.
TruthyString(o) == o # None /\ Val(o) # ""
TruthyChars(o) == o # None /\ Val(o) # <<>>
TruthyNumber(o) == o # None /\ Val(o) # 0

Slots == 1..MaxRequests

(***************************************************************************)
(* The byte ceiling of the body read loop: 1024 * 1024.                    *)
(***************************************************************************)
MaxBodyBytes == 1048576

(***************************************************************************)
(* Dependency-name normalisation (handler lines 58-70).                    *)
(***************************************************************************)
IsWhite(c) == c = " "

RECURSIVE TrimStart(_)
TrimStart(s) ==
  IF s # <<>> /\ IsWhite(Head(s)) THEN TrimStart(Tail(s)) ELSE s

RECURSIVE TrimEnd(_)
TrimEnd(s) ==
  IF s # <<>> /\ IsWhite(s[Len(s)]) THEN TrimEnd(SubSeq(s, 1, Len(s) - 1)) ELSE s

\* String.prototype.trim
Trim(s) == TrimEnd(TrimStart(s))

\* The collation the comparison uses has levels.  A character is ignorable
\* (the soft hyphen, written "SHY"), or has a primary weight (white space
\* before letters, the letters in alphabetical order) and a case weight
\* (lower case before upper case).
Ignorable(c) == c = "SHY"

PrimaryWeight(c) ==
  CASE c = " " -> 1
    [] c \in {"a", "A"} -> 2
    [] c \in {"b", "B"} -> 3
    [] OTHER -> 4

CaseWeight(c) == IF c \in {"A", "B"} THEN 1 ELSE 0

\* The weights of the characters of s that are not ignorable, in order.
RECURSIVE PrimaryKey(_)
PrimaryKey(s) ==
  IF s = <<>> THEN <<>>
  ELSE IF Ignorable(Head(s)) THEN PrimaryKey(Tail(s))
  ELSE <<PrimaryWeight(Head(s))>> \o PrimaryKey(Tail(s))

RECURSIVE CaseKey(_)
CaseKey(s) ==
  IF s = <<>> THEN <<>>
  ELSE IF Ignorable(Head(s)) THEN CaseKey(Tail(s))
  ELSE <<CaseWeight(Head(s))>> \o CaseKey(Tail(s))

\* Two keys compared element by element; a proper prefix comes first.
RECURSIVE CompareKeys(_, _)
CompareKeys(a, b) ==
  IF a = <<>> /\ b = <<>> THEN 0
  ELSE IF a = <<>> THEN -1
  ELSE IF b = <<>> THEN 1
  ELSE IF Head(a) < Head(b) THEN -1
  ELSE IF Head(a) > Head(b) THEN 1
  ELSE CompareKeys(Tail(a), Tail(b))

\* a.localeCompare(b): negative, zero or positive.  The primary keys decide;
\* the case keys break their tie.
LocaleCompare(a, b) ==
  LET p == CompareKeys(PrimaryKey(a), PrimaryKey(b))
  IN IF p # 0 THEN p ELSE CompareKeys(CaseKey(a), CaseKey(b))

\* .filter(typeof name === 'string').map(trim).filter(Boolean)
RECURSIVE CollectNames(_)
CollectNames(names) ==
  IF names = <<>> THEN <<>>
  ELSE LET n == Head(names)
           rest == CollectNames(Tail(names))
       IN IF n = None THEN rest
          ELSE IF Trim(Val(n)) = <<>> THEN rest
          ELSE <<Trim(Val(n))>> \o rest

Contains(s, x) == \E i \in 1..Len(s) : s[i] = x

\* [...new Set(list)]: the first occurrence of each element, in order.
RECURSIVE Dedupe(_, _)
Dedupe(list, acc) ==
  IF list = <<>> THEN acc
  ELSE Dedupe(Tail(list),
              IF Contains(acc, Head(list)) THEN acc ELSE Append(acc, Head(list)))

\* An insertion that puts x before the elements it compares equal to.
RECURSIVE InsertSortedUnstable(_, _)
InsertSortedUnstable(s, x) ==
  IF s = <<>> THEN <<x>>
  ELSE IF LocaleCompare(x, Head(s)) <= 0 THEN <<x>> \o s
  ELSE <<Head(s)>> \o InsertSortedUnstable(Tail(s), x)

\* Insert x into the sorted list s after every element that does not
\* compare greater (Array.prototype.sort is stable).
RECURSIVE InsertSorted(_, _)
InsertSorted(s, x) ==
  IF s = <<>> THEN <<x>>
  ELSE IF LocaleCompare(x, Head(s)) < 0 THEN <<x>> \o s
  ELSE <<Head(s)>> \o InsertSorted(Tail(s), x)

RECURSIVE SortNames(_)
SortNames(list) ==
  IF list = <<>> THEN <<>>
  ELSE InsertSorted(SortNames(SubSeq(list, 1, Len(list) - 1)), list[Len(list)])

\* A normalisation without the Set.
NormalizedNoDedupe(names) == SortNames(CollectNames(names))

\* Lines 58-70, one array after the other: each stage works on the value
\* the stage before it produced.
NormalizedDependencies(names) ==
  CHOOSE out \in
    {SortNames(distinct) :
       distinct \in {Dedupe(collected, <<>>) :
                       collected \in {CollectNames(given) :
                                        given \in {names}}}} : TRUE

LowerChar(c) ==
  CASE c = "N" -> "n"
    [] c = "P" -> "p"
    [] c = "M" -> "m"
    [] OTHER -> c

\* String.prototype.toLowerCase
ToLowerCase(s) == [i \in 1..Len(s) |-> LowerChar(s[i])]

(***************************************************************************)
(* The inputs of a request.                                                *)
(***************************************************************************)
Methods == {"GET", "POST"}
\* requestUrl.pathname.  Node gives every server request a url, so the
\* missing_url answer of lines 117-121 is never given; "//" stands for a
\* request target that new URL(...) rejects with a TypeError.  Node joins a
\* repeated x-github-* header into one string, so the Array.isArray
\* branches of lines 144-150 are never taken.
Paths == {"/health", "/webhook", "/", "/other", "//"}
DeliveryHeaders == {None, Some(""), Some("d-1")}
EventHeaders == {None, Some(""), Some("dependabot_alert"), Some("push")}
SignatureHeaders == {None, Some(""), Some("sha256=s")}

Envelopes ==
  [method : Methods, path : Paths, delivery : DeliveryHeaders,
   event : EventHeaders, signature : SignatureHeaders]

\* Lengths of the chunks the body stream delivers.
ChunkSizes == {1, MaxBodyBytes - 1, MaxBodyBytes + 1}

HandledActions == {"created", "reopened", "reintroduced", "auto_reopened"}
ActionValues ==
  {None, Some("created"), Some("auto_reopened"), Some("dismissed")}

\* directPackage.name, and the advisory's vulnerabilities[].package.name:
\* None when security_advisory or its vulnerabilities are missing (reading
\* them throws), else the list of the names.
DirectNames == {None, Some(<<" ">>), Some(<<"b", " ">>)}
RelatedNames ==
  {None, Some(<<>>), Some(<<Some(<<" ", "a">>), Some(<<"b">>)>>)}

\* alert.dependency.package: "unreachable" when alert or alert.dependency is
\* missing (reading .package throws), "missing" when package is undefined.
PackageShapes ==
  {[package |-> "unreachable", ecosystem |-> None],
   [package |-> "missing", ecosystem |-> None],
   [package |-> "present", ecosystem |-> None],
   [package |-> "present", ecosystem |-> Some(<<>>)],
   [package |-> "present", ecosystem |-> Some(<<"N", "P", "M">>)]}

InstallationIds == {None, Some(0), Some(7), Some(8)}

\* alert.number, alert.security_advisory.ghsa_id and
\* alert.security_vulnerability.severity; None when security_vulnerability
\* is absent.
AlertFacts ==
  {None,
   Some([number |-> 1, ghsa_id |-> "GHSA-aaaa", severity |-> "high"]),
   Some([number |-> 2, ghsa_id |-> "ghsa-BBBB", severity |-> "HIGH"])}

\* A decoded JSON object.
Payloads ==
  {[action |-> a, package |-> p.package, ecosystem |-> p.ecosystem,
    directName |-> d, related |-> v, installationId |-> i,
    hasFacts |-> f # None, facts |-> f, hasRepository |-> o] :
     a \in ActionValues, p \in PackageShapes, d \in DirectNames,
     v \in RelatedNames, i \in InstallationIds, f \in AlertFacts,
     o \in BOOLEAN}

NoPayload ==
  [action |-> None, package |-> "unreachable", ecosystem |-> None,
   directName |-> None, related |-> None, installationId |-> None,
   hasFacts |-> FALSE, facts |-> None, hasRepository |-> FALSE]

\* What the received bytes turn out to be once the stream has ended: whether
\* the signature header is the keyed digest of the decoded text, and what
\* JSON.parse makes of it.  A text of n bytes cannot hold an object when n < 2
\* and holds nothing when n = 0.
Contents(n) ==
  {[signed |-> s, json |-> "malformed", doc |-> NoPayload] : s \in BOOLEAN}
  \cup (IF n >= 1
        THEN {[signed |-> s, json |-> "falsy", doc |-> NoPayload] :
                s \in BOOLEAN}
        ELSE {})
  \cup (IF n >= 2
        THEN {[signed |-> s, json |-> "object", doc |-> d] :
                s \in BOOLEAN, d \in Payloads}
        ELSE {})

(***************************************************************************)
(* The state of one request.                                               *)
(***************************************************************************)
NoContent == [signed |-> FALSE, json |-> "malformed", doc |-> NoPayload]

IdleReq ==
  [pc |-> "idle",
   method |-> "", path |-> "",
   delivery |-> None, event |-> None, signature |-> None,
   totalBytes |-> 0, chunks |-> <<>>, events |-> 0, destroyed |-> FALSE,
   content |-> NoContent,
   verifyCalls |-> 0, verdict |-> "none",
   parseCalls |-> 0, handlerRuns |-> 0,
   thrown |-> "",
   authCalls |-> 0, authFor |-> None, authResult |-> "none",
   authToken |-> None,
   dispatchCalls |-> 0, call |-> None, dispatchResult |-> "none",
   resp |-> <<>>]

\* response.writeHead(status); response.end(JSON.stringify(body))
Respond(q, status, body) ==
  [q EXCEPT !.pc = "done",
            !.resp = Append(@, [status |-> status, body |-> body])]

\* An async function without a .catch: the rejection is unhandled and no
\* response is written.
CatchUnhandled(q, message) ==
  [q EXCEPT !.pc = "rejected", !.thrown = message]

\* The .catch of the request's async function (lines 209-213).
Catch(q, message) ==
  Respond([q EXCEPT !.thrown = message], 500, [error |-> "internal_error"])

\* Gates that look at the event kind before the headers' presence.
GatesEventFirst(q) ==
  IF q.path = "//"
  THEN Catch(q, "TypeError")
  ELSE IF q.method = "GET" /\ q.path = "/health"
  THEN Respond(q, 200, [status |-> "ok"])
  ELSE IF q.method # "POST" \/ (q.path # "/webhook" /\ q.path # "/")
  THEN Respond(q, 404, [error |-> "not_found"])
  ELSE IF TruthyString(q.event) /\ Val(q.event) # "dependabot_alert"
  THEN Respond(q, 202, [skipped |-> "unsupported_event", event |-> Val(q.event)])
  ELSE IF ~TruthyString(q.delivery) \/ ~TruthyString(q.event)
          \/ ~TruthyString(q.signature)
  THEN Respond(q, 400, [error |-> "missing_github_headers"])
  ELSE [q EXCEPT !.pc = "reading"]

\* Gates that look at the headers before the method and the path.
GatesHeadersFirst(q) ==
  IF q.path = "//"
  THEN Catch(q, "TypeError")
  ELSE IF q.method = "GET" /\ q.path = "/health"
  THEN Respond(q, 200, [status |-> "ok"])
  ELSE IF ~TruthyString(q.delivery) \/ ~TruthyString(q.event)
          \/ ~TruthyString(q.signature)
  THEN Respond(q, 400, [error |-> "missing_github_headers"])
  ELSE IF q.method # "POST" \/ (q.path # "/webhook" /\ q.path # "/")
  THEN Respond(q, 404, [error |-> "not_found"])
  ELSE IF Val(q.event) # "dependabot_alert"
  THEN Respond(q, 202, [skipped |-> "unsupported_event", event |-> Val(q.event)])
  ELSE [q EXCEPT !.pc = "reading"]

\* Gates that read the body of every event kind.
GatesNoEventGate(q) ==
  IF q.path = "//"
  THEN Catch(q, "TypeError")
  ELSE IF q.method = "GET" /\ q.path = "/health"
  THEN Respond(q, 200, [status |-> "ok"])
  ELSE IF q.method # "POST" \/ (q.path # "/webhook" /\ q.path # "/")
  THEN Respond(q, 404, [error |-> "not_found"])
  ELSE IF ~TruthyString(q.delivery) \/ ~TruthyString(q.event)
          \/ ~TruthyString(q.signature)
  THEN Respond(q, 400, [error |-> "missing_github_headers"])
  ELSE [q EXCEPT !.pc = "reading"]

(***************************************************************************)
(* Lines 117-167: the synchronous gates before the body is read.           *)
(***************************************************************************)
Gates(q) ==
  IF q.path = "//"
  THEN Catch(q, "TypeError")
  ELSE IF q.method = "GET" /\ q.path = "/health"
  THEN Respond(q, 200, [status |-> "ok"])
  ELSE IF q.method # "POST" \/ (q.path # "/webhook" /\ q.path # "/")
  THEN Respond(q, 404, [error |-> "not_found"])
  ELSE IF ~TruthyString(q.delivery) \/ ~TruthyString(q.event)
          \/ ~TruthyString(q.signature)
  THEN Respond(q, 400, [error |-> "missing_github_headers"])
  ELSE IF Val(q.event) # "dependabot_alert"
  THEN Respond(q, 202, [skipped |-> "unsupported_event", event |-> Val(q.event)])
  ELSE [q EXCEPT !.pc = "reading"]

\* A request with one of the given request lines and header sets is
\* received by slot r.
Accept(r, envelopes) ==
  /\ req[r].pc = "idle"
  /\ \E v \in envelopes :
       req' = [req EXCEPT ![r] =
                 Gates([IdleReq EXCEPT !.method = v.method, !.path = v.path,
                                       !.delivery = v.delivery,
                                       !.event = v.event,
                                       !.signature = v.signature])]
  /\ UNCHANGED fx

Arrive(r) == Accept(r, Envelopes)

\* A read loop that rejects a total equal to the ceiling.
OnChunkInclusive(q, n) ==
  LET t == q.totalBytes + n
      q1 == [q EXCEPT !.totalBytes = t, !.events = @ + 1]
  IN IF t >= MaxBodyBytes
     THEN Respond([q1 EXCEPT !.destroyed = TRUE], 413,
                  [error |-> "payload_too_large"])
     ELSE [q1 EXCEPT !.chunks = Append(@, n)]

\* A read loop that compares the total with the ceiling one chunk late.
OnChunkLateCheck(q, n) ==
  LET t == q.totalBytes + n
      q1 == [q EXCEPT !.totalBytes = t, !.events = @ + 1]
  IN IF q.totalBytes > MaxBodyBytes
     THEN Respond([q1 EXCEPT !.destroyed = TRUE], 413,
                  [error |-> "payload_too_large"])
     ELSE [q1 EXCEPT !.chunks = Append(@, n)]

(***************************************************************************)
(* Lines 169-181: one iteration of the body read loop.                     *)
(***************************************************************************)
OnChunk(q, n) ==
  LET t == q.totalBytes + n
      q1 == [q EXCEPT !.totalBytes = t, !.events = @ + 1]
  IN IF t > MaxBodyBytes
     THEN Respond([q1 EXCEPT !.destroyed = TRUE], 413,
                  [error |-> "payload_too_large"])
     ELSE [q1 EXCEPT !.chunks = Append(@, n)]

\* The stream of slot r delivers a chunk of one of the given sizes.
Read(r, sizes) ==
  /\ req[r].pc = "reading"
  /\ req[r].events < MaxChunks
  /\ \E n \in sizes : req' = [req EXCEPT ![r] = OnChunk(req[r], n)]
  /\ UNCHANGED fx

ReadChunk(r) == Read(r, ChunkSizes)

\* A stream error that is not caught per request and takes every request in
\* flight down with it.
BodyErrorAbortsAll(r) ==
  /\ req[r].pc = "reading"
  /\ req' = [s \in Slots |->
               IF s = r THEN Catch(req[r], "stream error")
               ELSE IF req[s].pc \notin {"idle", "done"}
               THEN Catch(req[s], "aborted")
               ELSE req[s]]
  /\ UNCHANGED fx

\* The stream fails (the client aborts): the for await throws.
BodyError(r) ==
  /\ req[r].pc = "reading"
  /\ req' = [req EXCEPT ![r] = Catch(req[r], "stream error")]
  /\ UNCHANGED fx

\* The stream ends: line 183 decodes the chunks and line 185 calls
\* webhooks.verify.
Decode(r, contents) ==
  /\ req[r].pc = "reading"
  /\ \E c \in contents :
       req' = [req EXCEPT ![r] =
                 [req[r] EXCEPT !.content = c, !.verifyCalls = @ + 1,
                                !.pc = "verify"]]
  /\ UNCHANGED fx

EndOfBody(r) == Decode(r, Contents(req[r].totalBytes))

(***************************************************************************)
(* webhooks.verify(payload, signature): throws on an empty payload or      *)
(* signature, else compares the signature with the keyed digest.           *)
(***************************************************************************)
VerifyOutcome(q) ==
  IF q.totalBytes = 0 \/ ~TruthyString(q.signature) THEN "throw"
  ELSE IF q.content.signed THEN "true"
  ELSE "false"

(***************************************************************************)
(* Lines 48-93: the dependabot_alert handler up to the appAuth call.       *)
(***************************************************************************)
AllNames(doc) == <<doc.directName>> \o Val(doc.related)

\* Lines 82-88.
\* A payload that lower-cases the severity and not the ecosystem.
DispatchPayloadWrongCase(doc) ==
  [alert_number |-> Val(doc.facts).number,
   ghsa_id |-> Val(doc.facts).ghsa_id,
   severity |-> IF Val(doc.facts).severity = "HIGH" THEN "high"
                ELSE Val(doc.facts).severity,
   ecosystem |-> Val(doc.ecosystem),
   dependencies |-> NormalizedDependencies(AllNames(doc))]

DispatchPayload(doc) ==
  [alert_number |-> Val(doc.facts).number,
   ghsa_id |-> Val(doc.facts).ghsa_id,
   severity |-> Val(doc.facts).severity,
   ecosystem |-> ToLowerCase(Val(doc.ecosystem)),
   dependencies |-> NormalizedDependencies(AllNames(doc))]

\* A handler that asks for the credential before it looks at the
\* dependency names and the installation id.
HandlerAuthEarly(q) ==
  LET doc == q.content.doc
      q1 == [q EXCEPT !.handlerRuns = @ + 1]
  IN IF doc.package = "unreachable"
     THEN Catch(q1, "TypeError")
     ELSE IF doc.package = "missing"
     THEN Catch(q1, "Missing alert.dependency.package")
     ELSE IF ~TruthyChars(doc.ecosystem)
     THEN Catch(q1, "Missing alert.dependency.package.ecosystem")
     ELSE IF doc.related = None
     THEN Catch(q1, "TypeError")
     ELSE IF ~doc.hasFacts
     THEN Catch(q1, "TypeError")
     ELSE [q1 EXCEPT !.authCalls = @ + 1,
                     !.authFor = doc.installationId,
                     !.pc = "auth"]

\* A handler without the ecosystem check.
HandlerNoEcosystemCheck(q) ==
  LET doc == q.content.doc
      q1 == [q EXCEPT !.handlerRuns = @ + 1]
  IN IF doc.package = "unreachable"
     THEN Catch(q1, "TypeError")
     ELSE IF doc.package = "missing"
     THEN Catch(q1, "Missing alert.dependency.package")
     ELSE IF doc.related = None
     THEN Catch(q1, "TypeError")
     ELSE IF NormalizedDependencies(AllNames(doc)) = <<>>
     THEN Catch(q1, "No dependency names in dependabot alert payload")
     ELSE IF ~TruthyNumber(doc.installationId)
     THEN Catch(q1, "Missing installation.id in webhook payload")
     ELSE IF ~doc.hasFacts
     THEN Catch(q1, "TypeError")
     ELSE [q1 EXCEPT !.authCalls = @ + 1,
                     !.authFor = doc.installationId,
                     !.pc = "auth"]

Handler(q) ==
  LET doc == q.content.doc
      q1 == [q EXCEPT !.handlerRuns = @ + 1]
  IN IF doc.package = "unreachable"
     THEN Catch(q1, "TypeError")
     ELSE IF doc.package = "missing"
     THEN Catch(q1, "Missing alert.dependency.package")
     ELSE IF ~TruthyChars(doc.ecosystem)
     THEN Catch(q1, "Missing alert.dependency.package.ecosystem")
     ELSE IF doc.related = None
     THEN Catch(q1, "TypeError")
     ELSE IF NormalizedDependencies(AllNames(doc)) = <<>>
     THEN Catch(q1, "No dependency names in dependabot alert payload")
     ELSE IF ~TruthyNumber(doc.installationId)
     THEN Catch(q1, "Missing installation.id in webhook payload")
     ELSE IF ~doc.hasFacts
     THEN Catch(q1, "TypeError")
     ELSE [q1 EXCEPT !.authCalls = @ + 1,
                     !.authFor = doc.installationId,
                     !.pc = "auth"]

\* A receiver whose handler is registered for the event name alone and so
\* runs for every action.
ReceiveAnyAction(q) ==
  IF q.content.json = "falsy"
  THEN Catch(q, "Event payload not passed")
  ELSE Handler(q)

\* A receiver that swallows the handler's error.
ReceiveSwallows(q) ==
  IF q.content.json = "falsy"
  THEN Catch(q, "Event payload not passed")
  ELSE IF q.content.doc.action # None
          /\ Val(q.content.doc.action) \in HandledActions
          /\ Handler(q).pc # "done"
  THEN Handler(q)
  ELSE Respond(q, 202, [accepted |-> TRUE])

\* webhooks.receive: rejects a missing payload, runs the handler registered
\* for dependabot_alert.<action> if there is one, and rethrows its error.
Receive(q) ==
  IF q.content.json = "falsy"
  THEN Catch(q, "Event payload not passed")
  ELSE IF q.content.doc.action # None
          /\ Val(q.content.doc.action) \in HandledActions
  THEN Handler(q)
  ELSE Respond(q, 202, [accepted |-> TRUE])

\* A JSON.parse outside any try: its SyntaxError reaches the .catch.
ParseUncaught(q) ==
  LET q1 == [q EXCEPT !.parseCalls = @ + 1]
  IN IF q.content.json = "malformed"
     THEN Catch(q1, "SyntaxError")
     ELSE Receive(q1)

\* Lines 192-208 up to the handler's first await.
Parse(q) ==
  LET q1 == [q EXCEPT !.parseCalls = @ + 1]
  IN IF q.content.json = "malformed"
     THEN Respond(q1, 400, [error |-> "invalid_json"])
     ELSE Receive(q1)

\* A handler that parses the body whatever the verdict.
AfterVerifyUnchecked(q) ==
  LET v == VerifyOutcome(q)
      q1 == [q EXCEPT !.verdict = v]
  IN IF v = "throw" THEN Catch(q1, "TypeError") ELSE Parse(q1)

\* Lines 185-190: the verdict of webhooks.verify arrives.
AfterVerify(q) ==
  LET v == VerifyOutcome(q)
      q1 == [q EXCEPT !.verdict = v]
  IN IF v = "throw" THEN Catch(q1, "TypeError")
     ELSE IF v = "false"
     THEN Respond(q1, 401, [error |-> "invalid_signature"])
     ELSE Parse(q1)

VerifyReturn(r) ==
  /\ req[r].pc = "verify"
  /\ req' = [req EXCEPT ![r] = AfterVerify(req[r])]
  /\ UNCHANGED fx

(***************************************************************************)
(* Lines 90-103: appAuth settles; on a token the dispatch call is issued.  *)
(***************************************************************************)
\* An event type that carries the name of the bridge.
EventTypePrefixed == "dependabot-alert-bridge.dependabot-alert-opened"

EventType == "dependabot-alert-opened"

\* What appAuth settles with: a rejection (None) or an installation token,
\* an opaque string chosen by the service.
Tokens == {"ghs_1", "ghs_2"}
AuthResults == {None} \cup {Some(t) : t \in Tokens}

\* `token ${installationAuth.token}`
Authorization(token) == <<"token ", token>>

\* A handler that goes on to the dispatch call without a token.
OnAuthIgnoresFailure(q, result) ==
  LET q1 == [q EXCEPT !.authResult =
                        IF result = None THEN "rejected" ELSE "token",
                      !.authToken = result]
  IN IF ~q.content.doc.hasRepository THEN Catch(q1, "TypeError")
     ELSE [q1 EXCEPT !.dispatchCalls = @ + 1,
                     !.call = Some([authorization |->
                                      Authorization(IF result = None
                                                    THEN "undefined"
                                                    ELSE Val(result)),
                                    event_type |-> EventType,
                                    client_payload |->
                                      DispatchPayload(q.content.doc)]),
                     !.pc = "dispatch"]

OnAuth(q, result) ==
  IF result = None
  THEN Catch([q EXCEPT !.authResult = "rejected"], "appAuth rejected")
  ELSE LET q1 == [q EXCEPT !.authResult = "token", !.authToken = result]
       IN IF ~q.content.doc.hasRepository THEN Catch(q1, "TypeError")
          ELSE [q1 EXCEPT !.dispatchCalls = @ + 1,
                          !.call = Some([authorization |->
                                           Authorization(Val(result)),
                                         event_type |-> EventType,
                                         client_payload |->
                                           DispatchPayload(q.content.doc)]),
                          !.pc = "dispatch"]

\* A handler that keeps the last token in a variable of the module and
\* authorizes with it whichever request it was returned to.
AuthReturnShared(r) ==
  /\ req[r].pc = "auth"
  /\ \E result \in AuthResults :
       LET q2 == OnAuth(req[r], result)
           kept == {Val(req[s].authToken) :
                      s \in {x \in Slots \ {r} : req[x].authToken # None}}
       IN req' = [req EXCEPT ![r] =
                    IF q2.call # None /\ kept # {}
                    THEN [q2 EXCEPT !.call =
                            Some([Val(q2.call) EXCEPT !.authorization =
                                    Authorization(CHOOSE t \in kept : TRUE)])]
                    ELSE q2]
  /\ UNCHANGED fx

AuthReturn(r) ==
  /\ req[r].pc = "auth"
  /\ \E result \in AuthResults :
       req' = [req EXCEPT ![r] = OnAuth(req[r], result)]
  /\ UNCHANGED fx

\* A dispatcher that issues the call again when it fails.
OnDispatchRetry(q, ok) ==
  IF ok THEN Respond([q EXCEPT !.dispatchResult = "accepted"], 202,
                     [accepted |-> TRUE])
  ELSE IF q.dispatchCalls < 2 THEN [q EXCEPT !.dispatchCalls = @ + 1]
  ELSE Catch([q EXCEPT !.dispatchResult = "rejected"], "dispatch rejected")

\* A dispatcher whose accepted call still ends in the error response.
OnDispatchLost(q, ok) ==
  Catch([q EXCEPT !.dispatchResult = IF ok THEN "accepted" ELSE "rejected"],
        "dispatch rejected")

\* Lines 95-108 and 201-208: githubRequest settles.
OnDispatch(q, ok) ==
  IF ok THEN Respond([q EXCEPT !.dispatchResult = "accepted"], 202,
                     [accepted |-> TRUE])
  ELSE Catch([q EXCEPT !.dispatchResult = "rejected"], "dispatch rejected")

DispatchReturn(r) ==
  /\ req[r].pc = "dispatch"
  /\ \E ok \in BOOLEAN : req' = [req EXCEPT ![r] = OnDispatch(req[r], ok)]
  /\ UNCHANGED fx

\* The exchange is over; nothing of it is kept.
Close(r) ==
  /\ req[r].pc = "done"
  /\ req' = [req EXCEPT ![r] = IdleReq]
  /\ UNCHANGED fx

(***************************************************************************)
(* The server handling one request after another.                          *)
(***************************************************************************)
NoFx == [stage |-> "off"]

Init ==
  /\ req = [r \in Slots |-> IdleReq]
  /\ fx = NoFx

Serve(r) ==
  \/ Arrive(r)
  \/ ReadChunk(r)
  \/ BodyError(r)
  \/ EndOfBody(r)
  \/ VerifyReturn(r)
  \/ AuthReturn(r)
  \/ DispatchReturn(r)
  \/ Close(r)

\* One request at a time, drawn from all the inputs above.
Next == Serve(1)

Spec == Init /\ [][Next]_vars

(***************************************************************************)
(* The server handling several requests at once: every slot runs the same  *)
(* pipeline, interleaved with the others at its awaits.  The requests are  *)
(* signed or unsigned webhook deliveries of a few payloads.                *)
(***************************************************************************)
ConcEnvelopes ==
  [method : {"POST"}, path : {"/webhook"}, delivery : {Some("d-1")},
   event : {Some("dependabot_alert"), Some("push")},
   signature : {Some("sha256=s")}]

CompleteAlert ==
  [action |-> Some("created"), package |-> "present",
   ecosystem |-> Some(<<"N", "P", "M">>), directName |-> Some(<<"b", " ">>),
   related |-> Some(<<Some(<<" ", "a">>), Some(<<"b">>)>>),
   installationId |-> Some(7), hasFacts |-> TRUE,
   facts |-> Some([number |-> 1, ghsa_id |-> "GHSA-aaaa", severity |-> "high"]),
   hasRepository |-> TRUE]

ConcPayloads ==
  {CompleteAlert,
   [CompleteAlert EXCEPT !.installationId = Some(8)],
   [CompleteAlert EXCEPT !.action = Some("dismissed")],
   [CompleteAlert EXCEPT !.ecosystem = None]}

ConcContents(n) ==
  {[signed |-> s, json |-> "malformed", doc |-> NoPayload] : s \in BOOLEAN}
  \cup (IF n >= 2
        THEN {[signed |-> s, json |-> "object", doc |-> d] :
                s \in BOOLEAN, d \in ConcPayloads}
        ELSE {})

ConcChunkSizes == {MaxBodyBytes - 1}

ArriveConc(r) == Accept(r, ConcEnvelopes)

ReadChunkConc(r) == Read(r, ConcChunkSizes)

EndOfBodyConc(r) == Decode(r, ConcContents(req[r].totalBytes))

ServeConc(r) ==
  \/ ArriveConc(r)
  \/ ReadChunkConc(r)
  \/ BodyError(r)
  \/ EndOfBodyConc(r)
  \/ VerifyReturn(r)
  \/ AuthReturn(r)
  \/ DispatchReturn(r)
  \/ Close(r)

NextConc == \E r \in Slots : ServeConc(r)

SpecConc == Init /\ [][NextConc]_vars

(***************************************************************************)
(* The same server when whatever a request waits for does happen: the body *)
(* stream ends or fails, webhooks.verify settles, and appAuth and          *)
(* githubRequest each return or fail.  Every continuation of the handler   *)
(* is a promise reaction that the event loop runs once its promise has     *)
(* settled; nothing is assumed about requests arriving or about a stream   *)
(* delivering further chunks.                                              *)
(***************************************************************************)
Settles(r) ==
  /\ WF_vars(EndOfBodyConc(r) \/ BodyError(r))
  /\ WF_vars(VerifyReturn(r))
  /\ WF_vars(AuthReturn(r))
  /\ WF_vars(DispatchReturn(r))

SpecLive == Init /\ [][NextConc]_vars /\ \A r \in Slots : Settles(r)

(***************************************************************************)
(* The signature check on the bytes of a body (lines 183-185).             *)
(*                                                                         *)
(* Buffer.concat(chunks).toString('utf8') decodes the received bytes to a  *)
(* string, putting U+FFFD in place of every ill-formed sequence;           *)
(* webhooks.verify signs that string, that is the UTF-8 encoding of it,    *)
(* with the secret and compares the result with the signature header.  The *)
(* keyed digest is modelled as an ideal one: it is the pair of its key and *)
(* its message, so that two digests are equal only for equal inputs.       *)
(***************************************************************************)
ReplacementChar == 65533

\* The decoder: need continuation bytes are outstanding, seen of them were
\* read into cp, and the next one has to lie in lo..hi.
RECURSIVE Utf8Dec(_, _, _, _, _, _, _)
Utf8Dec(bytes, need, seen, cp, lo, hi, out) ==
  IF bytes = <<>>
  THEN IF need > 0 THEN Append(out, ReplacementChar) ELSE out
  ELSE LET b == Head(bytes)
           rest == Tail(bytes)
       IN IF need = 0
          THEN IF b <= 127
               THEN Utf8Dec(rest, 0, 0, 0, 128, 191, Append(out, b))
               ELSE IF b >= 194 /\ b <= 223
               THEN Utf8Dec(rest, 1, 0, b - 192, 128, 191, out)
               ELSE IF b >= 224 /\ b <= 239
               THEN Utf8Dec(rest, 2, 0, b - 224,
                            IF b = 224 THEN 160 ELSE 128,
                            IF b = 237 THEN 159 ELSE 191, out)
               ELSE IF b >= 240 /\ b <= 244
               THEN Utf8Dec(rest, 3, 0, b - 240,
                            IF b = 240 THEN 144 ELSE 128,
                            IF b = 244 THEN 143 ELSE 191, out)
               ELSE Utf8Dec(rest, 0, 0, 0, 128, 191,
                            Append(out, ReplacementChar))
          ELSE IF b < lo \/ b > hi
               THEN Utf8Dec(bytes, 0, 0, 0, 128, 191,
                            Append(out, ReplacementChar))
               ELSE IF seen + 1 = need
               THEN Utf8Dec(rest, 0, 0, 0, 128, 191,
                            Append(out, cp * 64 + (b - 128)))
               ELSE Utf8Dec(rest, need, seen + 1, cp * 64 + (b - 128),
                            128, 191, out)

\* buffer.toString('utf8'): the code points of the string.
Utf8Decode(bytes) == Utf8Dec(bytes, 0, 0, 0, 128, 191, <<>>)

EncodeChar(c) ==
  IF c < 128 THEN <<c>>
  ELSE IF c < 2048 THEN <<192 + (c \div 64), 128 + (c % 64)>>
  ELSE IF c < 65536
  THEN <<224 + (c \div 4096), 128 + ((c \div 64) % 64), 128 + (c % 64)>>
  ELSE <<240 + (c \div 262144), 128 + ((c \div 4096) % 64),
         128 + ((c \div 64) % 64), 128 + (c % 64)>>

\* The bytes a string is hashed as.
RECURSIVE Utf8Encode(_)
Utf8Encode(text) ==
  IF text = <<>> THEN <<>> ELSE EncodeChar(Head(text)) \o Utf8Encode(Tail(text))

\* config.webhookSecret
WebhookSecret == "secret"

Hmac(key, bytes) == <<key, bytes>>

\* A signature header: the digest it spells, and which of its bits was
\* changed on the way (0: none).
SignatureOf(key, bytes, flipped) == [mac |-> Hmac(key, bytes), flipped |-> flipped]

\* sign(secret, payload) of a string.
Sign(key, text) == SignatureOf(key, Utf8Encode(text), 0)

\* webhooks.verify(payload, signature) with the secret bound.
Verify(key, text, signature) ==
  IF text = <<>> THEN "throw"
  ELSE IF signature = Sign(key, text) THEN "true"
  ELSE "false"

Pow2(k) == 2 ^ k
FlipBit(b, k) ==
  IF (b \div Pow2(k)) % 2 = 1 THEN b - Pow2(k) ELSE b + Pow2(k)

\* The byte strings that differ from x in exactly one bit.
OneBitOff(x) ==
  {[x EXCEPT ![i] = FlipBit(x[i], k)] : i \in 1..Len(x), k \in 0..7}

\* 'A', '@', the two bytes of U+00E9, a lone continuation byte, an
\* overlong lead byte, and the three bytes of U+FFFD.
SigBytes == {65, 64, 195, 169, 128, 193, 239, 191, 189}

SigBodies == UNION {[1..n -> SigBytes] : n \in 1..MaxSigLen}

\* A delivery: the sender signed the bytes signedOver with the secret; the
\* bytes body arrive, and the header arrives with bit flipped changed.
SigInputs ==
  {[stage |-> "received", signedOver |-> x, body |-> x, flipped |-> 0,
    text |-> <<>>, verdict |-> "none"] : x \in SigBodies}
  \cup
  UNION {{[stage |-> "received", signedOver |-> x, body |-> b, flipped |-> 0,
           text |-> <<>>, verdict |-> "none"] : b \in OneBitOff(x)} :
         x \in SigBodies}
  \cup
  {[stage |-> "received", signedOver |-> x, body |-> x, flipped |-> 1,
    text |-> <<>>, verdict |-> "none"] : x \in SigBodies}

InitSig ==
  /\ req = [r \in Slots |-> IdleReq]
  /\ fx \in SigInputs

\* Line 183.
SigDecode ==
  /\ fx.stage = "received"
  /\ fx' = [fx EXCEPT !.stage = "decoded", !.text = Utf8Decode(fx.body)]
  /\ UNCHANGED req

\* Line 185.
SigVerify ==
  /\ fx.stage = "decoded"
  /\ fx' = [fx EXCEPT !.stage = "verified",
                      !.verdict =
                        Verify(WebhookSecret, fx.text,
                               SignatureOf(WebhookSecret, fx.signedOver,
                                           fx.flipped))]
  /\ UNCHANGED req

NextSig == SigDecode \/ SigVerify

SpecSig == InitSig /\ [][NextSig]_vars

(***************************************************************************)
(* The normalisation of lines 58-70 by itself, over every list of at most  *)
(* MaxNames names of at most MaxNameLen characters.  A name that is not a  *)
(* string (undefined, null) is None.                                       *)
(***************************************************************************)
MaxNames == 2
MaxNameLen == 2

NameChars == {" ", "a", "A", "SHY"}
NameStrings == UNION {[1..n -> NameChars] : n \in 0..MaxNameLen}
NameValues == {None} \cup {Some(s) : s \in NameStrings}
NameLists == UNION {[1..n -> NameValues] : n \in 1..MaxNames}

InitNorm ==
  /\ req = [r \in Slots |-> IdleReq]
  /\ \E names \in NameLists :
       fx = [stage |-> "names", names |-> names, out |-> <<>>, again |-> <<>>]

\* Lines 58-70 on the names of the payload.
Normalize ==
  /\ fx.stage = "names"
  /\ fx' = [fx EXCEPT !.stage = "normalized",
                      !.out = NormalizedDependencies(fx.names)]
  /\ UNCHANGED req

\* Lines 58-70 on a payload whose names are the list just produced.
NormalizeAgain ==
  /\ fx.stage = "normalized"
  /\ fx' = [fx EXCEPT !.stage = "normalized twice",
                      !.again = NormalizedDependencies(
                                  [i \in 1..Len(fx.out) |-> Some(fx.out[i])])]
  /\ UNCHANGED req

NextNorm == Normalize \/ NormalizeAgain

SpecNorm == InitNorm /\ [][NextNorm]_vars

(***************************************************************************)
(* Properties of the pipeline.                                             *)
(***************************************************************************)
Answered(q) == q.pc = "done" /\ Len(q.resp) = 1
Status(q) == q.resp[1].status
Body(q) == q.resp[1].body
WebhookRoute(q) == q.method = "POST" /\ q.path \in {"/webhook", "/"}
HeadersPresent(q) ==
  TruthyString(q.delivery) /\ TruthyString(q.event) /\ TruthyString(q.signature)
Handled(doc) == doc.action # None /\ Val(doc.action) \in HandledActions
NoOutboundCall(q) == q.authCalls = 0 /\ q.dispatchCalls = 0

\* C1: a request has 0 or 1 dispatch calls made for it, never more, also
\* when the call fails; and it has none when it was answered at a gate
\* before the dispatcher.
C1_AtMostOneDispatch ==
  \A r \in Slots :
    LET q == req[r]
    IN /\ q.dispatchCalls \in {0, 1}
       /\ q.pc \in {"idle", "reading", "verify", "auth"} => q.dispatchCalls = 0
       /\ (q.pc = "done" /\ q.dispatchResult = "none") => q.dispatchCalls = 0
       /\ (q.pc = "done" /\ Status(q) \in {200, 400, 401, 404, 413})
            => q.dispatchCalls = 0
       /\ (q.pc = "done" /\ q.dispatchResult = "rejected")
            => q.dispatchCalls = 1 /\ Status(q) = 500

\* A request whose one dispatch call failed and was answered 500.
C1_Witness ==
  \E r \in Slots :
    /\ Answered(req[r]) /\ req[r].dispatchResult = "rejected"
    /\ req[r].dispatchCalls = 1 /\ Status(req[r]) = 500

C2_Pre(q) ==
  LET doc == q.content.doc
  IN /\ WebhookRoute(q) /\ HeadersPresent(q)
     /\ Val(q.event) = "dependabot_alert"
     /\ q.totalBytes <= MaxBodyBytes /\ ~q.destroyed
     /\ q.content.signed /\ q.content.json = "object"
     /\ doc.package = "present" /\ TruthyChars(doc.ecosystem)
     /\ doc.related # None /\ NormalizedDependencies(AllNames(doc)) # <<>>
     /\ doc.installationId # None

Dispatched(q) == q.dispatchCalls = 1 /\ q.dispatchResult = "accepted"
MarkedSkipped(q) == "skipped" \in DOMAIN Body(q)
\* An authenticated, decoded dependabot_alert whose action no handler is
\* registered for.
UnhandledAction(q) ==
  /\ q.verdict = "true" /\ q.content.json = "object"
  /\ ~Handled(q.content.doc)
  /\ q.handlerRuns = 0 /\ NoOutboundCall(q)
  /\ Body(q) = [accepted |-> TRUE]

\* C3 as stated: a 202 means a dispatch was issued and accepted, or the
\* body marks the request as skipped.
C3_Original ==
  \A r \in Slots :
    (Answered(req[r]) /\ Status(req[r]) = 202)
      => Dispatched(req[r]) \/ MarkedSkipped(req[r])

\* C3 (amended): a 202 means a dispatch was issued and accepted, or the
\* body marks the request as skipped, or the request is an authenticated
\* dependabot_alert whose action is not one of the four handled ones, for
\* which nothing was called and the body is {accepted: true}.
C3_Accepted202 ==
  \A r \in Slots :
    (Answered(req[r]) /\ Status(req[r]) = 202)
      => \/ Dispatched(req[r])
         \/ MarkedSkipped(req[r])
         \/ UnhandledAction(req[r])

C3_Witness ==
  \E r \in Slots :
    /\ Answered(req[r]) /\ Status(req[r]) = 202
    /\ UnhandledAction(req[r])
    /\ req[r].content.doc.action = Some("dismissed")

\* C4: when webhooks.verify returns false the request is answered 401 and
\* nothing further runs for it: no JSON.parse, no handler, no credential
\* exchange, no dispatch.
C4_BadSignatureHalts ==
  \A r \in Slots :
    LET q == req[r]
    IN (q.verifyCalls = 1 /\ q.pc # "verify" /\ ~q.content.signed
        /\ q.totalBytes > 0)
         => /\ Answered(q) /\ Status(q) = 401
            /\ Body(q) = [error |-> "invalid_signature"]
            /\ q.verdict = "false"
            /\ q.parseCalls = 0 /\ q.handlerRuns = 0 /\ NoOutboundCall(q)

\* A rejected request whose body would have decoded to a handled alert.
C4_Witness ==
  \E r \in Slots :
    /\ req[r].verdict = "false" /\ Answered(req[r]) /\ Status(req[r]) = 401
    /\ req[r].content.json = "object" /\ Handled(req[r].content.doc)

ValidationErrors ==
  {"Missing alert.dependency.package",
   "Missing alert.dependency.package.ecosystem",
   "No dependency names in dependabot alert payload",
   "Missing installation.id in webhook payload"}

\* The payload fails a field validation of the handler.
Defective(doc) ==
  \/ doc.package = "missing"
  \/ doc.package = "present" /\ ~TruthyChars(doc.ecosystem)
  \/ doc.related # None /\ NormalizedDependencies(AllNames(doc)) = <<>>
  \/ ~TruthyNumber(doc.installationId)

\* C6: when the handler runs on a payload that fails a field validation
\* (package missing, ecosystem missing or empty, no usable dependency name,
\* installation id missing), the request ends in an error and neither the
\* credential exchange nor the dispatch call is made for it.
C6_ValidationBeforeNetwork ==
  \A r \in Slots :
    LET q == req[r]
    IN /\ (q.handlerRuns = 1 /\ Defective(q.content.doc))
            => /\ Answered(q) /\ Status(q) = 500
               /\ q.thrown \in ValidationErrors \cup {"TypeError"}
               /\ NoOutboundCall(q)
       /\ q.thrown \in ValidationErrors => NoOutboundCall(q)

\* A request stopped only by having no usable dependency name.
C6_Witness ==
  \E r \in Slots :
    /\ req[r].handlerRuns = 1 /\ Answered(req[r])
    /\ req[r].thrown = "No dependency names in dependabot alert payload"
    /\ TruthyNumber(req[r].content.doc.installationId)
    /\ NoOutboundCall(req[r])

\* An authenticated dependabot_alert request with a decoded payload whose
\* direct package has no ecosystem, or an empty one.
C7_Pre(q) ==
  /\ WebhookRoute(q) /\ HeadersPresent(q)
  /\ Val(q.event) = "dependabot_alert"
  /\ q.verdict = "true" /\ q.content.json = "object"
  /\ q.content.doc.package = "present"
  /\ ~TruthyChars(q.content.doc.ecosystem)

\* C7 as stated: every such request is answered 500 and never dispatched.
C7_Original ==
  \A r \in Slots :
    C7_Pre(req[r])
      => /\ Answered(req[r]) /\ Status(req[r]) = 500
         /\ NoOutboundCall(req[r])

\* C7 (amended): every such request whose action is one of the four handled
\* ones fails validation with the ecosystem error, is answered 500 and is
\* never dispatched; with any other action it is never dispatched either.
C7_MissingEcosystemFails ==
  \A r \in Slots :
    C7_Pre(req[r])
      => /\ NoOutboundCall(req[r])
         /\ Handled(req[r].content.doc)
              => /\ Answered(req[r]) /\ Status(req[r]) = 500
                 /\ Body(req[r]) = [error |-> "internal_error"]
                 /\ req[r].thrown = "Missing alert.dependency.package.ecosystem"

C7_Witness ==
  \E r \in Slots :
    /\ C7_Pre(req[r]) /\ Handled(req[r].content.doc)
    /\ req[r].content.doc.ecosystem = Some(<<>>)
    /\ Answered(req[r]) /\ Status(req[r]) = 500

\* C8: a POST to /webhook or / with the three headers and an event kind
\* other than dependabot_alert is answered 202 with a skipped indicator;
\* its body is never read, its signature never verified, and nothing is
\* called for it.
C8_UnsupportedEventSkipped ==
  \A r \in Slots :
    LET q == req[r]
    IN (q.pc # "idle" /\ WebhookRoute(q) /\ HeadersPresent(q)
        /\ Val(q.event) # "dependabot_alert")
         => /\ Answered(q) /\ Status(q) = 202
            /\ Body(q) = [skipped |-> "unsupported_event", event |-> Val(q.event)]
            /\ q.events = 0 /\ q.totalBytes = 0 /\ q.chunks = <<>>
            /\ q.verifyCalls = 0 /\ q.parseCalls = 0 /\ q.handlerRuns = 0
            /\ NoOutboundCall(q)

C8_Witness ==
  \E r \in Slots :
    /\ WebhookRoute(req[r]) /\ HeadersPresent(req[r])
    /\ Val(req[r].event) = "push"
    /\ Answered(req[r]) /\ Status(req[r]) = 202 /\ MarkedSkipped(req[r])

\* C9: when the bytes read for a request exceed the ceiling, the request is
\* answered 413 and signature verification, JSON.parse, the credential
\* exchange and the dispatch never run for it.
C9_OversizedRejected ==
  \A r \in Slots :
    LET q == req[r]
    IN q.totalBytes > MaxBodyBytes
         => /\ Answered(q) /\ Status(q) = 413
            /\ Body(q) = [error |-> "payload_too_large"]
            /\ q.verifyCalls = 0 /\ q.parseCalls = 0 /\ q.handlerRuns = 0
            /\ NoOutboundCall(q)

\* A body that crosses the ceiling with its second chunk.
C9_Witness ==
  \E r \in Slots :
    /\ req[r].totalBytes > MaxBodyBytes /\ Len(req[r].chunks) = 1
    /\ Answered(req[r]) /\ Status(req[r]) = 413

\* A POST to /webhook or / with a required header absent or empty.
C10_Pre(q) == q.pc # "idle" /\ WebhookRoute(q) /\ ~HeadersPresent(q)

\* C10 as stated: it is rejected with 400 and the code missing_headers.
C10_Original ==
  \A r \in Slots :
    C10_Pre(req[r])
      => /\ Answered(req[r]) /\ Status(req[r]) = 400
         /\ Body(req[r]) = [error |-> "missing_headers"]

\* C10 (amended): it is rejected with 400 and the code
\* missing_github_headers.
C10_MissingHeadersRejected ==
  \A r \in Slots :
    C10_Pre(req[r])
      => /\ Answered(req[r]) /\ Status(req[r]) = 400
         /\ Body(req[r]) = [error |-> "missing_github_headers"]

\* An unsupported event kind with an empty signature header.
C10_Witness ==
  \E r \in Slots :
    /\ C10_Pre(req[r]) /\ req[r].event = Some("push")
    /\ req[r].signature = Some("")
    /\ Answered(req[r]) /\ Status(req[r]) = 400

\* C5: the verdict is computed over the bytes received: it is true when the
\* signature is the keyed digest of those bytes, and false when the body
\* differs in one bit from the signed bytes or the signature has one bit
\* changed.
C5_VerdictOverReceivedBytes ==
  fx.stage = "verified"
    => /\ (fx.body = fx.signedOver /\ fx.flipped = 0) => fx.verdict = "true"
       /\ fx.body \in OneBitOff(fx.signedOver) => fx.verdict = "false"
       /\ fx.flipped # 0 => fx.verdict = "false"

\* A request that passed the signature check and whose body JSON.parse
\* rejects.
C11_Pre(q) == q.verdict = "true" /\ q.content.json = "malformed"

\* C11 as stated: it is rejected with 400 and the code invalid_body, and no
\* handler, credential exchange or dispatch runs for it.
C11_Original ==
  \A r \in Slots :
    C11_Pre(req[r])
      => /\ Answered(req[r]) /\ Status(req[r]) = 400
         /\ Body(req[r]) = [error |-> "invalid_body"]
         /\ req[r].handlerRuns = 0 /\ NoOutboundCall(req[r])

\* C11 (amended): it is rejected with 400 and the code invalid_json, and
\* no handler, credential exchange or dispatch runs for it.
C11_MalformedJsonRejected ==
  \A r \in Slots :
    C11_Pre(req[r])
      => /\ Answered(req[r]) /\ Status(req[r]) = 400
         /\ Body(req[r]) = [error |-> "invalid_json"]
         /\ req[r].parseCalls = 1
         /\ req[r].handlerRuns = 0 /\ NoOutboundCall(req[r])

C11_Witness ==
  \E r \in Slots :
    /\ C11_Pre(req[r]) /\ req[r].totalBytes = MaxBodyBytes
    /\ Answered(req[r]) /\ Status(req[r]) = 400

\* A request one of whose downstream calls was rejected.
AuthFailed(q) == q.authResult = "rejected"
DispatchFailed(q) == q.dispatchResult = "rejected"

\* C12: a request whose credential exchange or dispatch call failed is
\* answered 500 and only 500; after a failed credential exchange no dispatch
\* call is issued; each of the two calls is made at most once.
C12_DownstreamFailureIs500 ==
  \A r \in Slots :
    /\ AuthFailed(req[r]) \/ DispatchFailed(req[r])
         => /\ Answered(req[r]) /\ Len(req[r].resp) = 1
            /\ Status(req[r]) = 500
            /\ Body(req[r]) = [error |-> "internal_error"]
    /\ AuthFailed(req[r])
         => /\ req[r].dispatchCalls = 0 /\ req[r].call = None
            /\ req[r].authCalls = 1
    /\ DispatchFailed(req[r])
         => req[r].dispatchCalls = 1 /\ req[r].authCalls = 1

C12_Witness ==
  \E r \in Slots :
    /\ DispatchFailed(req[r]) /\ req[r].authResult = "token"
    /\ Status(req[r]) = 500 /\ req[r].dispatchCalls = 1

\* The trimmed form of a string, said without recursion: what lies between
\* its first and its last character that is not white space.
TrimmedForm(s) ==
  LET solid == {i \in 1..Len(s) : ~IsWhite(s[i])}
  IN IF solid = {} THEN <<>>
     ELSE SubSeq(s, CHOOSE i \in solid : \A j \in solid : i <= j,
                    CHOOSE i \in solid : \A j \in solid : j <= i)

\* The distinct non-empty trimmed forms of the names that are strings.
ExpectedNames(names) ==
  {TrimmedForm(Val(names[i])) : i \in {j \in 1..Len(names) : names[j] # None}}
    \ {<<>>}

Normalized == fx.stage \in {"normalized", "normalized twice"}

\* C13: the normalized list has no two equal elements, is ascending under
\* localeCompare, has no empty or whitespace-only element, and its elements
\* are exactly the distinct non-empty trimmed forms of the input names.
C13_NormalizedList ==
  Normalized =>
    /\ \A i, j \in 1..Len(fx.out) : i < j => fx.out[i] # fx.out[j]
    /\ \A i, j \in 1..Len(fx.out) :
         i < j => LocaleCompare(fx.out[i], fx.out[j]) <= 0
    /\ \A i \in 1..Len(fx.out) :
         \E k \in 1..Len(fx.out[i]) : ~IsWhite(fx.out[i][k])
    /\ {fx.out[i] : i \in 1..Len(fx.out)} = ExpectedNames(fx.names)

\* Two names that need trimming and come out in the other order.
C13_Witness ==
  /\ Normalized
  /\ Len(fx.names) = 2 /\ Len(fx.out) = 2
  /\ fx.names[1] # None /\ fx.names[2] # None
  /\ Val(fx.names[1]) # fx.out[2] /\ TrimmedForm(Val(fx.names[1])) = fx.out[2]
  /\ Val(fx.names[2]) # fx.out[1] /\ TrimmedForm(Val(fx.names[2])) = fx.out[1]
  /\ LocaleCompare(fx.out[1], fx.out[2]) < 0

\* C14: normalizing a list that is already normalized yields that list.
C14_Idempotent ==
  fx.stage = "normalized twice" => fx.again = fx.out

\* The second pass met two different names that compare equal.
C14_Witness ==
  /\ fx.stage = "normalized twice"
  /\ Len(fx.again) = 2 /\ fx.again = fx.out
  /\ LocaleCompare(fx.out[1], fx.out[2]) = 0

\* The lower-case form of a string over the letters of the ecosystem names,
\* said by position.
LowerCased(s, t) ==
  /\ Len(t) = Len(s)
  /\ \A i \in 1..Len(s) :
       t[i] = (CASE s[i] = "N" -> "n" [] s[i] = "P" -> "p"
                 [] s[i] = "M" -> "m" [] OTHER -> s[i])

\* C15: the payload of every dispatch call has alert_number, ghsa_id and
\* severity as they are in the alert, the ecosystem of the direct package in
\* lower case, the normalized dependencies, and no other field.
C15_PayloadFields ==
  \A r \in Slots :
    req[r].call # None =>
      LET p == Val(req[r].call).client_payload
          doc == req[r].content.doc
      IN /\ DOMAIN p = {"alert_number", "ghsa_id", "severity", "ecosystem",
                        "dependencies"}
         /\ doc.facts # None
         /\ p.alert_number = Val(doc.facts).number
         /\ p.ghsa_id = Val(doc.facts).ghsa_id
         /\ p.severity = Val(doc.facts).severity
         /\ doc.ecosystem # None
         /\ LowerCased(Val(doc.ecosystem), p.ecosystem)
         /\ p.dependencies = NormalizedDependencies(AllNames(doc))

\* A dispatch for an alert whose severity and ecosystem are in upper case
\* and whose names needed trimming and sorting.
C15_Witness ==
  \E r \in Slots :
    /\ req[r].call # None
    /\ Val(req[r].call).client_payload.severity = "HIGH"
    /\ Val(req[r].call).client_payload.ecosystem = <<"n", "p", "m">>
    /\ Val(req[r].call).client_payload.dependencies = <<<<"a">>, <<"b">>>>

AuthorizedByOwnToken(q) ==
  q.dispatchCalls > 0 =>
    /\ q.call # None
    /\ q.authCalls = 1 /\ q.authResult = "token"
    /\ q.authFor = q.content.doc.installationId
    /\ TruthyNumber(q.authFor)
    /\ q.authToken # None
    /\ Val(q.call).authorization = <<"token ", Val(q.authToken)>>

\* C17: every dispatch call follows, in its request, exactly one successful
\* credential exchange for the request's installation id and carries the
\* token it returned; the call is issued by the step in which that exchange
\* returns to the same request; and a request that has dispatched makes no
\* further credential exchange.
C17_CredentialBeforeDispatch ==
  /\ [](\A r \in Slots : AuthorizedByOwnToken(req[r]))
  /\ [][\A r \in Slots :
          req'[r].dispatchCalls > req[r].dispatchCalls
            => /\ req[r].pc = "auth" /\ req[r].authToken = None
               /\ req'[r].authToken # None
               /\ \A s \in Slots \ {r} : req'[s] = req[s]]_vars
  /\ [][\A r \in Slots :
          req[r].dispatchCalls > 0 /\ req'[r].pc # "idle"
            => /\ req'[r].authCalls = req[r].authCalls
               /\ req'[r].authToken = req[r].authToken]_vars

\* Two requests in flight for two installations, each dispatched with the
\* token its own exchange returned.
C17_Witness ==
  /\ req[1].dispatchCalls = 1 /\ req[2].dispatchCalls = 1
  /\ req[1].authFor = Some(7) /\ req[2].authFor = Some(8)
  /\ Val(req[1].call).authorization = <<"token ", "ghs_1">>
  /\ Val(req[2].call).authorization = <<"token ", "ghs_2">>

\* The gates, each by the condition that fails it.  The URL of the request
\* line can be parsed in all of them.
Received(q) == q.pc # "idle" /\ q.path # "//"
HealthProbe(q) == q.method = "GET" /\ q.path = "/health"
RouteFails(q) == Received(q) /\ ~HealthProbe(q) /\ ~WebhookRoute(q)
HeadersFail(q) == Received(q) /\ WebhookRoute(q) /\ ~HeadersPresent(q)
EventFails(q) ==
  /\ Received(q) /\ WebhookRoute(q) /\ HeadersPresent(q)
  /\ Val(q.event) # "dependabot_alert"
SizeFails(q) == Received(q) /\ q.totalBytes > MaxBodyBytes
SignatureFails(q) == Received(q) /\ q.verdict = "false"
DecodingFails(q) ==
  Received(q) /\ q.verdict = "true" /\ q.content.json = "malformed"

\* Nothing of the body has been read, verified, parsed or handled.
BodyUntouched(q) ==
  /\ q.events = 0 /\ q.totalBytes = 0 /\ q.verifyCalls = 0
  /\ q.parseCalls = 0 /\ q.handlerRuns = 0

\* C18: the first gate that fails decides the response, in the order path
\* and method (404), headers (400), event kind (202 skipped), body size
\* (413), signature (401), JSON decoding (400), field validation; a gate is
\* evaluated only after every gate before it has passed.
C18_GateOrder ==
  \A r \in Slots :
    LET q == req[r]
    IN /\ RouteFails(q)
            => /\ Answered(q) /\ Status(q) = 404
               /\ Body(q) = [error |-> "not_found"] /\ BodyUntouched(q)
       /\ HeadersFail(q)
            => /\ Answered(q) /\ Status(q) = 400
               /\ Body(q) = [error |-> "missing_github_headers"]
               /\ BodyUntouched(q)
       /\ EventFails(q)
            => /\ Answered(q) /\ Status(q) = 202
               /\ Body(q) = [skipped |-> "unsupported_event",
                             event |-> Val(q.event)]
               /\ BodyUntouched(q)
       /\ q.events > 0
            => /\ WebhookRoute(q) /\ HeadersPresent(q)
               /\ Val(q.event) = "dependabot_alert"
       /\ SizeFails(q)
            => /\ Answered(q) /\ Status(q) = 413
               /\ Body(q) = [error |-> "payload_too_large"]
               /\ q.verifyCalls = 0 /\ q.parseCalls = 0 /\ q.handlerRuns = 0
       /\ q.verifyCalls > 0
            => /\ WebhookRoute(q) /\ HeadersPresent(q)
               /\ Val(q.event) = "dependabot_alert"
               /\ q.totalBytes <= MaxBodyBytes
       /\ SignatureFails(q)
            => /\ Answered(q) /\ Status(q) = 401
               /\ Body(q) = [error |-> "invalid_signature"]
               /\ q.parseCalls = 0 /\ q.handlerRuns = 0
       /\ q.parseCalls > 0 => q.verifyCalls = 1 /\ q.verdict = "true"
       /\ DecodingFails(q)
            => /\ Answered(q) /\ Status(q) = 400
               /\ Body(q) = [error |-> "invalid_json"]
               /\ q.handlerRuns = 0
       /\ q.handlerRuns > 0
            => q.parseCalls = 1 /\ q.content.json = "object"

\* A request to an unknown path without the GitHub headers, answered 404.
C18_Witness ==
  \E r \in Slots :
    /\ RouteFails(req[r]) /\ ~HeadersPresent(req[r])
    /\ req[r].path = "/other" /\ req[r].method = "POST"
    /\ Answered(req[r]) /\ Status(req[r]) = 404

\* What a request is given: its request line and headers, the bytes received
\* and what they decode to, whether its stream failed, and what its own two
\* external calls returned.
Envelope(q) == <<q.method, q.path, q.delivery, q.event, q.signature>>
Given(q) ==
  <<Envelope(q), q.chunks, q.totalBytes, q.content, q.thrown = "stream error",
    q.authResult, q.authToken, q.dispatchResult>>

\* What a request does: its response, its outbound calls, and how far it
\* went.
Done(q) ==
  <<q.resp, q.call, q.authCalls, q.authFor, q.dispatchCalls, q.verifyCalls,
    q.verdict, q.parseCalls, q.handlerRuns, q.destroyed>>

AnsweredAtGates(q) ==
  q.pc = "done" /\ BodyUntouched(q) /\ q.thrown = ""

\* C19: under every interleaving, a step of one request leaves every other
\* request as it was; two requests given the same have done the same, whatever
\* was handled before or beside them; a request line and headers that one
\* request passed the gates with are not answered at the gates for another;
\* and a closed request leaves nothing behind.
C19_RequestsIndependent ==
  /\ [][\A r, s \in Slots :
          r # s /\ req'[r] # req[r] => req'[s] = req[s]]_vars
  /\ [](\A r, s \in Slots :
          req[r].pc = "done" /\ req[s].pc = "done"
            /\ Given(req[r]) = Given(req[s])
            => Done(req[r]) = Done(req[s]))
  /\ [](\A r, s \in Slots :
          req[r].pc # "idle" /\ req[s].pc # "idle"
            /\ Envelope(req[r]) = Envelope(req[s])
            => (AnsweredAtGates(req[r]) <=> AnsweredAtGates(req[s])))
  /\ [][\A r \in Slots :
          req[r].pc = "done" /\ req'[r] # req[r] => req'[r] = IdleReq]_vars

\* The same alert delivered twice, with the same delivery id, dispatched
\* twice with the same payload.
C19_Witness ==
  /\ req[1].pc = "done" /\ req[2].pc = "done"
  /\ Envelope(req[1]) = Envelope(req[2])
  /\ req[1].content = req[2].content
  /\ req[1].content.doc = CompleteAlert
  /\ req[1].dispatchCalls = 1 /\ req[2].dispatchCalls = 1
  /\ req[1].dispatchResult = "accepted" /\ req[2].dispatchResult = "accepted"
  /\ Val(req[1].call).client_payload = Val(req[2].call).client_payload
  /\ Status(req[1]) = 202 /\ Status(req[2]) = 202

\* The number of bytes held in the chunks array.
RECURSIVE RetainedBytes(_)
RetainedBytes(chunks) ==
  IF chunks = <<>> THEN 0 ELSE Head(chunks) + RetainedBytes(Tail(chunks))

TooLarge(q) ==
  Answered(q) /\ Status(q) = 413 /\ Body(q) = [error |-> "payload_too_large"]

\* C20: the chunks held never total more than 1,048,576 bytes; a received
\* total within the ceiling is held whole, and of a larger one the chunk that
\* crossed the ceiling is not held; the request is answered 413 exactly when
\* the received total exceeds 1,048,576, and only a total within the ceiling
\* reaches the signature check.
C20_CeilingExact ==
  \A r \in Slots :
    LET q == req[r]
    IN /\ RetainedBytes(q.chunks) <= 1048576
       /\ q.totalBytes <= 1048576 => RetainedBytes(q.chunks) = q.totalBytes
       /\ q.totalBytes > 1048576 => RetainedBytes(q.chunks) < q.totalBytes
       /\ q.pc # "idle" => (TooLarge(q) <=> q.totalBytes > 1048576)
       /\ q.verifyCalls > 0 => q.totalBytes <= 1048576
       /\ q.pc = "reading" => q.totalBytes <= 1048576

\* A body of exactly 1,048,576 bytes, received in two chunks, at the
\* signature check.
C20_Witness ==
  \E r \in Slots :
    /\ req[r].totalBytes = 1048576 /\ Len(req[r].chunks) = 2
    /\ RetainedBytes(req[r].chunks) = 1048576
    /\ req[r].verifyCalls = 1 /\ req[r].verdict # "none"

\* An authenticated dependabot_alert request whose body is a JSON object
\* with an action that no handler is registered for, or with none.
C21_Pre(q) ==
  /\ WebhookRoute(q) /\ HeadersPresent(q)
  /\ Val(q.event) = "dependabot_alert"
  /\ q.verdict = "true" /\ q.content.json = "object"
  /\ ~Handled(q.content.doc)

\* C21: the handler, the credential exchange and the dispatch run only for
\* a payload whose action is created, reopened, reintroduced or
\* auto_reopened; an authenticated well-formed dependabot_alert request with
\* another action or none has no handler run, no credential exchange and no
\* dispatch, and is answered 202 {accepted: true}.
C21_OnlyHandledActions ==
  \A r \in Slots :
    LET q == req[r]
    IN /\ (q.handlerRuns > 0 \/ q.authCalls > 0 \/ q.dispatchCalls > 0)
            => /\ q.content.json = "object"
               /\ q.content.doc.action # None
               /\ Val(q.content.doc.action) \in
                    {"created", "reopened", "reintroduced", "auto_reopened"}
       /\ C21_Pre(q)
            => /\ Answered(q) /\ Status(q) = 202
               /\ Body(q) = [accepted |-> TRUE]
               /\ q.handlerRuns = 0 /\ q.thrown = ""
               /\ q.authCalls = 0 /\ q.dispatchCalls = 0 /\ q.call = None

\* A signed alert without an action field, and without the fields the
\* handler would reject, answered 202.
C21_Witness ==
  \E r \in Slots :
    /\ C21_Pre(req[r]) /\ req[r].content.doc.action = None
    /\ req[r].content.doc.package = "missing"
    /\ req[r].content.doc.installationId = None
    /\ Answered(req[r]) /\ Body(req[r]) = [accepted |-> TRUE]

\* A request has been received and not yet closed.
Inbound(q) == q.pc # "idle"
AnsweredOnce(q) == q.pc = "done" /\ Len(q.resp) = 1

\* C22: when the body stream ends or fails and each external call returns
\* or fails, every request received is eventually answered; no request has
\* more than one response written, a request that has finished has exactly
\* one, and a response once written is not written again or changed.
C22_ExactlyOneResponse ==
  /\ \A r \in Slots : Inbound(req[r]) ~> AnsweredOnce(req[r])
  /\ [](\A r \in Slots :
          /\ Len(req[r].resp) <= 1
          /\ req[r].pc = "done" <=> Len(req[r].resp) = 1)
  /\ [][\A r \in Slots :
          Len(req[r].resp) = 1
            => req'[r].resp = req[r].resp \/ req'[r] = IdleReq]_vars

\* An error thrown inside the alert handler, answered once by the 500 of
\* the .catch.
C22_Witness ==
  \E r \in Slots :
    /\ req[r].handlerRuns = 1
    /\ req[r].thrown = "Missing alert.dependency.package.ecosystem"
    /\ AnsweredOnce(req[r]) /\ Status(req[r]) = 500

=============================================================================
